---- MODULE Spec2Model ----
(***************************************************************************)
(* Model of waveform_analysis.py: WaveformAnalyzer.find_audio_files, the   *)
(* two plotting stages and main.  Text is modelled as a sequence of        *)
(* one-character strings so that lower-casing, substring search and glob   *)
(* matching are computed, not assumed.                                     *)
(***************************************************************************)
EXTENDS Integers, Sequences, FiniteSets, TLC

VARIABLES
    data_path,    \* self.data_path: the text of the root directory's path
    fs,           \* the entries under the root (the directory tree scanned)
    pc,           \* position of main: scan, compare, detail, detail_return, done, stopped, crashed
    ext,          \* index of the outer loop over audio_extensions
    seen,         \* entries the current rglob(ext) has already yielded
    found,        \* every entry yielded so far by any rglob (history)
    real_files,   \* self.real_files
    fake_files,   \* self.fake_files
    plots_dir,    \* whether this run created/validated <root>/plots
    comparison,   \* outcome of create_waveform_comparison
    detailed,     \* outcome of create_detailed_waveform_analysis
    errors,       \* console error/skip messages printed so far
    locals        \* local variables of create_detailed_waveform_analysis before it returns

vars == <<data_path, fs, pc, ext, seen, found, real_files, fake_files,
          plots_dir, comparison, detailed, errors, locals>>

\* ------------------------------------------------------------------ bounds

\* Largest number of entries under the root.
MaxFiles == 3

\* ------------------------------------------------------------------ text

UpperCase == <<"A", "B", "C", "D", "E", "F", "G", "H", "I", "J", "K", "L", "M",
               "N", "O", "P", "Q", "R", "S", "T", "U", "V", "W", "X", "Y", "Z">>

LowerCase == <<"a", "b", "c", "d", "e", "f", "g", "h", "i", "j", "k", "l", "m",
               "n", "o", "p", "q", "r", "s", "t", "u", "v", "w", "x", "y", "z">>

\* str.lower() on one character.
LowerChar(c) ==
    IF \E i \in 1..Len(UpperCase) : UpperCase[i] = c
    THEN LowerCase[CHOOSE i \in 1..Len(UpperCase) : UpperCase[i] = c]
    ELSE c

\* str.lower().
Lower(s) == [i \in 1..Len(s) |-> LowerChar(s[i])]

\* Python's `k in s` on strings: k is a contiguous substring of s.
Contains(k, s) ==
    \E i \in 1..(Len(s) - Len(k) + 1) : SubSeq(s, i, i + Len(k) - 1) = k

\* Mutant: a glob that ignores the extension (pattern '*').
GlobMatchAny(pattern, name) == Len(name) >= 0 /\ Len(pattern) >= 0

\* Path.rglob's match of a pattern '*<suffix>' against an entry's name.
GlobMatch(pattern, name) ==
    /\ Head(pattern) = "*"
    /\ Len(name) >= Len(pattern) - 1
    /\ SubSeq(name, Len(name) - Len(pattern) + 2, Len(name)) = Tail(pattern)

\* audio_extensions, in the order the outer loop visits them.
audio_extensions ==
    << <<"*", ".", "w", "a", "v">>, <<"*", ".", "m", "p", "3">>,
       <<"*", ".", "f", "l", "a", "c">>, <<"*", ".", "m", "4", "a">> >>

RealKeywords ==
    { <<"r", "e", "a", "l">>, <<"g", "e", "n", "u", "i", "n", "e">>,
      <<"o", "r", "i", "g", "i", "n", "a", "l">>, <<"n", "a", "t", "u", "r", "a", "l">> }

FakeKeywords ==
    { <<"f", "a", "k", "e">>, <<"s", "y", "n", "t", "h", "e", "t", "i", "c">>,
      <<"g", "e", "n", "e", "r", "a", "t", "e", "d">>,
      <<"a", "r", "t", "i", "f", "i", "c", "i", "a", "l">> }

\* ------------------------------------------------------------------ inputs

\* Texts of the root path: "ds", "Real", "fake".
Roots == { <<"d", "s">>, <<"R", "e", "a", "l">>, <<"f", "a", "k", "e">> }

NoDir == << >>

E_real == [dir |-> NoDir,
           name |-> <<"r", "e", "a", "l", "_", "s", "a", "m", "p", "l", "e", ".", "w", "a", "v">>]
E_fake == [dir |-> NoDir,
           name |-> <<"f", "a", "k", "e", "_", "s", "a", "m", "p", "l", "e", ".", "w", "a", "v">>]
E_a == [dir |-> NoDir, name |-> <<"a", ".", "w", "a", "v">>]
E_b == [dir |-> NoDir, name |-> <<"b", ".", "w", "a", "v">>]
E_genuine == [dir |-> <<"f", "a", "k", "e">>,
              name |-> <<"G", "e", "n", "u", "i", "n", "e", ".", "f", "l", "a", "c">>]
E_synth == [dir |-> <<"S", "y", "n", "t", "h", "e", "t", "i", "c">>,
            name |-> <<"c", ".", "m", "4", "a">>]
E_txt == [dir |-> NoDir, name |-> <<"n", ".", "t", "x", "t">>]

\* The entries a directory tree may hold: real_sample.wav, fake_sample.wav,
\* a.wav, b.wav, fake/Genuine.flac, Synthetic/c.m4a, n.txt.
Universe == {E_real, E_fake, E_a, E_b, E_genuine, E_synth, E_txt}

\* ------------------------------------------------------------------ scan

\* str(file_path): the root's text, the folders below it, the name.
PathStr(root, f) ==
    root \o <<"/">> \o (IF f.dir = NoDir THEN << >> ELSE f.dir \o <<"/">>) \o f.name

\* any(keyword in filename or keyword in file_path_str.lower() for keyword in kws)
HasKeyword(kws, root, f) ==
    \E keyword \in kws :
        \/ Contains(keyword, Lower(f.name))
        \/ Contains(keyword, Lower(PathStr(root, f)))

\* Mutant: the tie goes to fake_files.
FallbackStrict(nr, nf) == IF nr < nf THEN "real" ELSE "fake"

\* The else branch: distribute evenly by the current lengths.
Fallback(nr, nf) == IF nr <= nf THEN "real" ELSE "fake"

\* Mutant: the fake keywords are tested first.
CategoryFakeFirst(root, f, nr, nf) ==
    IF HasKeyword(FakeKeywords, root, f) THEN "fake"
    ELSE IF HasKeyword(RealKeywords, root, f) THEN "real"
    ELSE Fallback(nr, nf)

\* Mutant: the elif branch is missing, fake-named files fall through.
CategoryNoFakeBranch(root, f, nr, nf) ==
    IF HasKeyword(RealKeywords, root, f) THEN "real"
    ELSE Fallback(nr, nf)

\* The if / elif / else of the loop body: the list the entry is appended to.
Category(root, f, nr, nf) ==
    IF HasKeyword(RealKeywords, root, f) THEN "real"
    ELSE IF HasKeyword(FakeKeywords, root, f) THEN "fake"
    ELSE Fallback(nr, nf)

\* Entries the current rglob has still to yield.
Pending == {f \in fs \ seen : GlobMatch(audio_extensions[ext], f.name)}

\* Mutant: the scan always reports success.
FindResultAlways(rf, ff) == Len(rf) >= 0 /\ Len(ff) >= 0

\* The return value of find_audio_files.
FindResult(rf, ff) == ~(rf = << >> /\ ff = << >>)

NoOutcome == [called |-> FALSE, fault |-> "none", okR |-> FALSE, okF |-> FALSE,
              panels |-> {}, pdf |-> FALSE]

NoLocals == [set |-> FALSE]

Init ==
    /\ data_path \in Roots
    /\ fs \in {S \in SUBSET Universe : Cardinality(S) <= MaxFiles}
    /\ pc = "scan"
    /\ ext = 1
    /\ seen = {}
    /\ found = {}
    /\ real_files = << >>
    /\ fake_files = << >>
    /\ plots_dir = FALSE
    /\ comparison = NoOutcome
    /\ detailed = NoOutcome
    /\ errors = {}
    /\ locals = NoLocals

\* One iteration of the inner loop: rglob yields f and the body files it.
ScanStep(f) ==
    /\ pc = "scan"
    /\ f \in Pending
    /\ LET c == Category(data_path, f, Len(real_files), Len(fake_files))
       IN /\ real_files' = IF c = "real" THEN Append(real_files, f) ELSE real_files
          /\ fake_files' = IF c = "fake" THEN Append(fake_files, f) ELSE fake_files
    /\ seen' = seen \cup {f}
    /\ found' = found \cup {f}
    /\ UNCHANGED <<data_path, fs, pc, ext, plots_dir, comparison, detailed, errors, locals>>

\* The current rglob is exhausted: the outer loop takes the next extension.
NextExt ==
    /\ pc = "scan"
    /\ Pending = {}
    /\ ext < Len(audio_extensions)
    /\ ext' = ext + 1
    /\ seen' = {}
    /\ UNCHANGED <<data_path, fs, pc, found, real_files, fake_files,
                   plots_dir, comparison, detailed, errors, locals>>

\* Both loops are done: find_audio_files returns and main tests the result.
ScanReturn ==
    /\ pc = "scan"
    /\ Pending = {}
    /\ ext = Len(audio_extensions)
    /\ pc' = IF FindResult(real_files, fake_files) THEN "compare" ELSE "stopped"
    /\ errors' = IF FindResult(real_files, fake_files) THEN errors
                 ELSE errors \cup {"no audio files"}
    /\ UNCHANGED <<data_path, fs, ext, seen, found, real_files, fake_files,
                   plots_dir, comparison, detailed, locals>>

\* ------------------------------------------------------------------ signals

\* The sample rate the detailed stage never exceeds.
DefaultRate == 22050

\* Seconds shown by the zoomed panel.
zoom_dur == 2

\* Seconds shown by panels B and C.
FirstSeconds == 5

\* Native sample rates and decoded lengths (in samples) a file may have.
Rates == {8000, 22050, 44100}
Lens == {8000, 44100, 88200}

\* What librosa.load raises instead of returning.
Undecoded == [ok |-> FALSE, sr |-> 0, len |-> 0]

\* librosa.load(path, sr=None): the samples (their number) and the native rate.
Decoded == {Undecoded} \cup [ok : {TRUE}, sr : Rates, len : Lens]

\* What librosa.load can do for an example: nothing to load when there is none.
Loads(files) == IF files = << >> THEN {Undecoded} ELSE Decoded

Min2(a, b) == IF a <= b THEN a ELSE b

\* len(a[:n]) for n >= 0.
SliceLen(n, len) == Min2(len, n)

\* Axes.plot(x, y): raises unless x and y have the same length.
PlotOK(xlen, ylen) == xlen = ylen

\* The step of a plotting stage that raises, if any.
Faults == {"none", "mkdir", "subplots", "tight_layout", "savefig"}

\* ------------------------------------------------------------------ comparison

\* Plot 1's try block: both loads, both plots.
CombinedOK(sigR, sigF) ==
    /\ sigR.ok /\ sigF.ok
    /\ PlotOK(sigR.len, sigR.len)
    /\ PlotOK(sigF.len, sigF.len)

\* Plots 2 and 3's try block: load, truncate to the first five seconds, plot.
FirstFiveOK(sig) ==
    /\ sig.ok
    /\ LET max_samples == Min2(sig.len, FirstSeconds * sig.sr)
       IN PlotOK(max_samples, SliceLen(max_samples, sig.len))

\* Mutant: one try block around all three plots, a failed load ends them all.
ComparisonPanelsOneTry(hasR, hasF, sigR, sigF) ==
    IF (hasR /\ ~sigR.ok) \/ (hasF /\ ~sigF.ok) THEN {"D"}
    ELSE (IF hasR /\ hasF THEN {"A"} ELSE {})
         \cup (IF hasR THEN {"B"} ELSE {})
         \cup (IF hasF THEN {"C"} ELSE {})
         \cup {"D"}

\* The panels drawn: A combined, B real, C fake, D the summary text.
ComparisonPanels(hasR, hasF, sigR, sigF) ==
    (IF hasR /\ hasF /\ CombinedOK(sigR, sigF) THEN {"A"} ELSE {})
    \cup (IF hasR /\ FirstFiveOK(sigR) THEN {"B"} ELSE {})
    \cup (IF hasF /\ FirstFiveOK(sigF) THEN {"C"} ELSE {})
    \cup {"D"}

\* The messages of the three except clauses.
ComparisonErrors(hasR, hasF, sigR, sigF) ==
    (IF hasR /\ hasF /\ ~CombinedOK(sigR, sigF) THEN {"combined"} ELSE {})
    \cup (IF hasR /\ ~FirstFiveOK(sigR) THEN {"real"} ELSE {})
    \cup (IF hasF /\ ~FirstFiveOK(sigF) THEN {"fake"} ELSE {})

\* create_waveform_comparison, as main calls it.  mkdir, subplots,
\* tight_layout and savefig stand outside every try block: when one of them
\* raises, the exception leaves the method and main.
Compare(sigR, sigF, fault) ==
    /\ pc = "compare"
    /\ sigR \in Loads(real_files)
    /\ sigF \in Loads(fake_files)
    /\ LET hasR == real_files # << >>
           hasF == fake_files # << >>
           figure == fault \notin {"mkdir", "subplots"}
       IN /\ plots_dir' = (plots_dir \/ fault # "mkdir")
          /\ comparison' =
                [called |-> TRUE, fault |-> fault, okR |-> sigR.ok, okF |-> sigF.ok,
                 panels |-> IF figure THEN ComparisonPanels(hasR, hasF, sigR, sigF) ELSE {},
                 pdf |-> (fault = "none")]
          /\ errors' = errors \cup
                (IF figure THEN ComparisonErrors(hasR, hasF, sigR, sigF) ELSE {})
    /\ pc' = IF fault = "none" THEN "detail" ELSE "crashed"
    /\ UNCHANGED <<data_path, fs, ext, seen, found, real_files, fake_files,
                   detailed, locals>>

\* ------------------------------------------------------------------ detailed

\* Mutant: the stage is skipped only when both lists are empty.
DetailedSkipBothEmpty(rf, ff) == rf = << >> /\ ff = << >>

\* The presence check that opens create_detailed_waveform_analysis.
DetailedSkip(rf, ff) == rf = << >> \/ ff = << >>

\* Mutant: the cap at 22050 Hz is forgotten.
TargetSrNoCap(sr_real, sr_fake) == Min2(sr_real, sr_fake)

\* target_sr = min(sr_real, sr_fake, 22050)
TargetSr(sr_real, sr_fake) == Min2(Min2(sr_real, sr_fake), DefaultRate)

\* librosa.resample: ceil(n * target_sr / orig_sr) samples at target_sr.
Resample(sig, target_sr) ==
    [ok |-> TRUE, sr |-> target_sr,
     len |-> (sig.len * target_sr + sig.sr - 1) \div sig.sr]

\* if sr != target_sr: audio = librosa.resample(audio, ...)
AtTarget(sig, target_sr) == IF sig.sr # target_sr THEN Resample(sig, target_sr) ELSE sig

\* The try block, statement by statement, up to the first one that raises.
DetailedBody(sigR, sigF, fault) ==
    IF ~(sigR.ok /\ sigF.ok)
    THEN [set |-> TRUE, in_real |-> sigR, in_fake |-> sigF, target_sr |-> 0,
          real_audio |-> Undecoded, fake_audio |-> Undecoded,
          panels |-> {}, pdf |-> FALSE, error |-> TRUE]
    ELSE LET target_sr == TargetSr(sigR.sr, sigF.sr)
             real_audio == AtTarget(sigR, target_sr)
             fake_audio == AtTarget(sigF, target_sr)
             time_len == real_audio.len
             overlay == /\ PlotOK(time_len, real_audio.len)
                        /\ PlotOK(time_len, fake_audio.len)
             zoom_samples == zoom_dur * target_sr
             zoom == /\ PlotOK(zoom_samples, SliceLen(zoom_samples, real_audio.len))
                     /\ PlotOK(zoom_samples, SliceLen(zoom_samples, fake_audio.len))
             saved == overlay /\ zoom /\ fault \notin {"tight_layout", "savefig"}
         IN [set |-> TRUE, in_real |-> sigR, in_fake |-> sigF, target_sr |-> target_sr,
             real_audio |-> real_audio, fake_audio |-> fake_audio,
             panels |-> IF ~overlay THEN {}
                        ELSE IF ~zoom THEN {"overlay"}
                        ELSE {"overlay", "zoom", "hist"},
             pdf |-> saved, error |-> ~saved]

\* Whether the call ends with an exception leaving the method: mkdir and
\* subplots stand before the try block.
DetailedRaises(rf, ff, fault) == ~DetailedSkip(rf, ff) /\ fault \in {"mkdir", "subplots"}

\* The effect of create_detailed_waveform_analysis on everything but main's
\* position and the method's own frame.
DetailedCall(sigR, sigF, fault) ==
    /\ sigR \in Loads(real_files)
    /\ sigF \in Loads(fake_files)
    /\ IF DetailedSkip(real_files, fake_files)
       THEN /\ sigR = Undecoded /\ sigF = Undecoded /\ fault = "none"
            /\ detailed' = [NoOutcome EXCEPT !.called = TRUE]
            /\ errors' = errors \cup {"skip detailed"}
            /\ UNCHANGED plots_dir
       ELSE IF DetailedRaises(real_files, fake_files, fault)
       THEN /\ sigR = Undecoded /\ sigF = Undecoded
            /\ detailed' = [NoOutcome EXCEPT !.called = TRUE, !.fault = fault]
            /\ plots_dir' = (plots_dir \/ fault # "mkdir")
            /\ UNCHANGED errors
       ELSE LET b == DetailedBody(sigR, sigF, fault)
            IN /\ detailed' = [called |-> TRUE, fault |-> fault, okR |-> sigR.ok,
                               okF |-> sigF.ok, panels |-> b.panels, pdf |-> b.pdf]
               /\ errors' = errors \cup (IF b.error THEN {"detailed"} ELSE {})
               /\ plots_dir' = TRUE
    /\ UNCHANGED <<data_path, fs, ext, seen, found, real_files, fake_files, comparison>>

\* create_detailed_waveform_analysis as main calls it, and main's last line.
Detailed(sigR, sigF, fault) ==
    /\ pc = "detail"
    /\ DetailedCall(sigR, sigF, fault)
    /\ pc' = IF DetailedRaises(real_files, fake_files, fault) THEN "crashed" ELSE "done"
    /\ locals' = NoLocals

\* The same call, stopped where the method is about to return or raise, its
\* local variables still in the frame.
DetailedRun(sigR, sigF, fault) ==
    /\ pc = "detail"
    /\ DetailedCall(sigR, sigF, fault)
    /\ pc' = "detail_return"
    /\ locals' = IF DetailedSkip(real_files, fake_files)
                    \/ DetailedRaises(real_files, fake_files, fault)
                 THEN NoLocals
                 ELSE DetailedBody(sigR, sigF, fault)

\* The method returns (or its exception leaves main) and the frame is dropped.
DetailedReturn ==
    /\ pc = "detail_return"
    /\ pc' = IF DetailedRaises(real_files, fake_files, detailed.fault)
             THEN "crashed" ELSE "done"
    /\ locals' = NoLocals
    /\ UNCHANGED <<data_path, fs, ext, seen, found, real_files, fake_files,
                   plots_dir, comparison, detailed, errors>>

Next ==
    \/ \E f \in Universe : ScanStep(f)
    \/ NextExt
    \/ ScanReturn
    \/ \E sigR \in Decoded, sigF \in Decoded, fault \in Faults : Compare(sigR, sigF, fault)
    \/ \E sigR \in Decoded, sigF \in Decoded, fault \in Faults : Detailed(sigR, sigF, fault)

Spec == Init /\ [][Next]_vars

\* States in which main is about to call create_detailed_waveform_analysis:
\* the scan of ds/{real_sample.wav, fake_sample.wav}, of ds/{real_sample.wav}
\* or of ds/{a.wav, b.wav} is over and the comparison stage has returned.
InitDetailed ==
    /\ data_path = <<"d", "s">>
    /\ \/ fs = {E_real, E_fake} /\ real_files = <<E_real>> /\ fake_files = <<E_fake>>
       \/ fs = {E_real} /\ real_files = <<E_real>> /\ fake_files = << >>
       \/ fs = {E_a, E_b} /\ real_files = <<E_a>> /\ fake_files = <<E_b>>
    /\ pc = "detail"
    /\ ext = Len(audio_extensions)
    /\ seen = {}
    /\ found = fs
    /\ plots_dir = TRUE
    /\ \E sigR \in Loads(real_files), sigF \in Loads(fake_files) :
         /\ comparison =
              [called |-> TRUE, fault |-> "none", okR |-> sigR.ok, okF |-> sigF.ok,
               panels |-> ComparisonPanels(real_files # << >>, fake_files # << >>, sigR, sigF),
               pdf |-> TRUE]
         /\ errors = ComparisonErrors(real_files # << >>, fake_files # << >>, sigR, sigF)
    /\ detailed = NoOutcome
    /\ locals = NoLocals

NextDetailed ==
    \/ \E sigR \in Decoded, sigF \in Decoded, fault \in Faults : DetailedRun(sigR, sigF, fault)
    \/ DetailedReturn

SpecDetailed == InitDetailed /\ [][NextDetailed]_vars

\* ------------------------------------------------------------------ claims

\* Number of occurrences of f in the sequence s.
Count(f, s) == Cardinality({i \in 1..Len(s) : s[i] = f})

InSeq(f, s) == Count(f, s) > 0

AudioSuffixes ==
    { <<".", "w", "a", "v">>, <<".", "m", "p", "3">>,
      <<".", "f", "l", "a", "c">>, <<".", "m", "4", "a">> }

\* The entries of the tree whose name ends in one of the four extensions.
AudioIn(tree) ==
    {f \in tree : \E suf \in AudioSuffixes :
        /\ Len(f.name) >= Len(suf)
        /\ \A i \in 1..Len(suf) : f.name[Len(f.name) - Len(suf) + i] = suf[i]}

\* A keyword of kws occurs in the lower-cased text s.
Occurs(kws, s) == \E k \in kws : Contains(k, Lower(s))

ScanOver == pc # "scan"

Figure1 == comparison.called /\ comparison.fault \notin {"mkdir", "subplots"}

\* C1: at every moment of the scan, each entry rglob has yielded so far is in
\* exactly one of real_files and fake_files, exactly once; the two lists hold
\* nothing else; and once the scan is over every audio file of the tree has
\* been yielded (none dropped).
C1_Total ==
    /\ \A f \in found : Count(f, real_files) + Count(f, fake_files) = 1
    /\ \A i \in 1..Len(real_files) : real_files[i] \in found
    /\ \A i \in 1..Len(fake_files) : fake_files[i] \in found
    /\ ScanOver => found = AudioIn(fs)

C1_Witness ==
    /\ ScanOver
    /\ Cardinality(found) = 2
    /\ real_files # << >>
    /\ fake_files # << >>
    /\ E_txt \in fs

\* C2 as stated: whatever the text of the root path, a tree whose audio files
\* are real_sample.wav and fake_sample.wav ends with real_files =
\* <<real_sample.wav>> and fake_files = <<fake_sample.wav>>.
C2_AnyRoot ==
    (ScanOver /\ AudioIn(fs) = {E_real, E_fake})
        => (real_files = <<E_real>> /\ fake_files = <<E_fake>>)

\* C2 amended: real_sample.wav always goes to real_files; fake_sample.wav goes
\* to fake_files when its lower-cased full path (the root's text included)
\* contains none of real, genuine, original, natural, and to real_files when
\* it contains one.
C2_RootWithoutRealKeyword ==
    (ScanOver /\ AudioIn(fs) = {E_real, E_fake})
        => IF Occurs(RealKeywords, PathStr(data_path, E_fake))
           THEN /\ fake_files = << >>
                /\ real_files \in {<<E_real, E_fake>>, <<E_fake, E_real>>}
           ELSE /\ real_files = <<E_real>>
                /\ fake_files = <<E_fake>>

C2_Witness ==
    /\ ScanOver
    /\ data_path = <<"f", "a", "k", "e">>
    /\ AudioIn(fs) = {E_real, E_fake}
    /\ real_files = <<E_real>>
    /\ fake_files = <<E_fake>>

\* One scan step files an entry without keyword in the shorter list, in
\* real_files on a tie.
C3_Step ==
    \A f \in found' \ found :
        ~Occurs(RealKeywords \cup FakeKeywords, PathStr(data_path, f)) =>
            /\ Len(real_files) < Len(fake_files) =>
                 (real_files' = Append(real_files, f) /\ fake_files' = fake_files)
            /\ Len(real_files) = Len(fake_files) =>
                 (real_files' = Append(real_files, f) /\ fake_files' = fake_files)
            /\ Len(real_files) > Len(fake_files) =>
                 (fake_files' = Append(fake_files, f) /\ real_files' = real_files)

\* When the only two files found have no keyword, one is in each list.
C3_TwoFiles ==
    (ScanOver /\ Cardinality(found) = 2
        /\ \A f \in found : ~Occurs(RealKeywords \cup FakeKeywords, PathStr(data_path, f)))
        => (Len(real_files) = 1 /\ Len(fake_files) = 1)

\* While at most one of two such files is filed, it is in real_files.
C3_FirstIsReal ==
    (Cardinality(found) = 1
        /\ \A f \in found : ~Occurs(RealKeywords \cup FakeKeywords, PathStr(data_path, f)))
        => (Len(real_files) = 1 /\ fake_files = << >>)

\* C3: every file without keyword in its name and path is appended to the list
\* that is shorter at that moment, counting every file already placed, and to
\* real_files when the lengths are equal; of two such files alone, the first
\* visited goes to real_files and the second to fake_files.
C3_RoundRobin == [][C3_Step]_vars /\ [](C3_TwoFiles /\ C3_FirstIsReal)

C3_Witness ==
    /\ ScanOver
    /\ data_path = <<"d", "s">>
    /\ real_files = <<E_real, E_b>>
    /\ fake_files = <<E_a>>

C5_RealOnly ==
    (comparison.called /\ comparison.fault = "none"
        /\ real_files # << >> /\ fake_files = << >>)
        => /\ comparison.pdf
           /\ comparison.panels \cap {"A", "B", "C"} = {"B"}
           /\ ~detailed.pdf

\* C5 amended: with real files only, panels A and C are left blank; panel B is
\* drawn exactly when the figure exists and the real example decodes (else the
\* error is logged and B is blank too); waveform_analysis.pdf is written exactly
\* when none of mkdir, subplots, tight_layout, savefig raises; the detailed
\* stage, when main reaches it, logs the skip and writes nothing.
C5_RealOnlyDecoded ==
    (comparison.called /\ real_files # << >> /\ fake_files = << >>)
        => /\ comparison.panels \cap {"A", "C"} = {}
           /\ ("B" \in comparison.panels) <=> (Figure1 /\ comparison.okR)
           /\ (Figure1 /\ ~comparison.okR) => "real" \in errors
           /\ comparison.pdf <=> (comparison.fault = "none")
           /\ ~detailed.pdf /\ detailed.panels = {}
           /\ pc = "done" => (detailed.called /\ "skip detailed" \in errors)

C5_Witness ==
    /\ pc = "done"
    /\ real_files # << >> /\ fake_files = << >>
    /\ comparison.pdf
    /\ comparison.panels = {"B", "D"}
    /\ "skip detailed" \in errors
    /\ ~detailed.pdf

\* C6: once the figure exists, a failed decode of an example is logged and
\* blanks exactly the panels that load that example: each of A, B, C is drawn
\* if and only if every example it loads is present and decodes, the summary
\* panel D is drawn, and, no other step failing, waveform_analysis.pdf is
\* written and main goes on to the detailed stage.
C6_PanelsIndependent ==
    (Figure1 /\ ( (real_files # << >> /\ ~comparison.okR)
                  \/ (fake_files # << >> /\ ~comparison.okF) ))
        => /\ ("A" \in comparison.panels) <=> (comparison.okR /\ comparison.okF)
           /\ ("B" \in comparison.panels) <=> comparison.okR
           /\ ("C" \in comparison.panels) <=> comparison.okF
           /\ "D" \in comparison.panels
           /\ (real_files # << >> /\ ~comparison.okR) => "real" \in errors
           /\ (fake_files # << >> /\ ~comparison.okF) => "fake" \in errors
           /\ (real_files # << >> /\ fake_files # << >>) => "combined" \in errors
           /\ (comparison.fault = "none")
                => (comparison.pdf /\ (pc = "detail" \/ detailed.called))

C6_Witness ==
    /\ real_files # << >> /\ fake_files # << >>
    /\ comparison.called /\ comparison.okR /\ ~comparison.okF
    /\ comparison.panels = {"B", "D"}
    /\ comparison.pdf
    /\ errors = {"combined", "fake"}

\* C7: when both lists are non-empty, both first files decode and no other
\* step fails, the detailed stage draws the overlay, the zoom and the
\* histogram and writes detailed_waveform_analysis.pdf, whatever the two
\* decoded lengths.
C7_DetailedAlwaysRenders ==
    (detailed.called /\ real_files # << >> /\ fake_files # << >>
        /\ detailed.okR /\ detailed.okF /\ detailed.fault = "none")
        => /\ detailed.panels = {"overlay", "zoom", "hist"}
           /\ detailed.pdf

\* C8: once the scan has succeeded no failure of a plotting stage leaves that
\* stage: main never ends with an exception, and when main has ended after
\* the comparison stage ran, the detailed stage has run too.
C8_FailuresStayLocal ==
    /\ pc # "crashed"
    /\ (comparison.called /\ pc \in {"done", "crashed"}) => detailed.called

\* The least element of a non-empty set of numbers.
Least(S) == CHOOSE m \in S : \A x \in S : m <= x

\* The signal out is the signal in, brought from its rate to target.
BroughtTo(in, out, target) ==
    /\ out.sr = target
    /\ in.sr = target => out = in
    /\ in.sr # target =>
         /\ in.len * target <= out.len * in.sr
         /\ (out.len - 1) * in.sr < in.len * target

\* C9: after both loads succeed, target_sr is the least of sr_real, sr_fake and
\* 22050; each signal is at target_sr before plotting; a signal whose native
\* rate is target_sr is left as loaded, any other is resampled from its native
\* rate to target_sr.
C9_TargetRate ==
    (pc = "detail_return" /\ locals.set /\ locals.in_real.ok /\ locals.in_fake.ok)
        => /\ locals.target_sr = Least({locals.in_real.sr, locals.in_fake.sr, 22050})
           /\ BroughtTo(locals.in_real, locals.real_audio, locals.target_sr)
           /\ BroughtTo(locals.in_fake, locals.fake_audio, locals.target_sr)

C9_Witness ==
    /\ pc = "detail_return" /\ locals.set
    /\ locals.in_real = [ok |-> TRUE, sr |-> 44100, len |-> 88200]
    /\ locals.in_fake = [ok |-> TRUE, sr |-> 22050, len |-> 44100]
    /\ locals.target_sr = 22050
    /\ locals.real_audio = [ok |-> TRUE, sr |-> 22050, len |-> 44100]
    /\ locals.fake_audio = locals.in_fake
    /\ detailed.pdf

\* C10: a yielded entry whose lower-cased full path (root and folders
\* included) contains a real keyword is in real_files and not in fake_files,
\* also when it contains a fake keyword; an entry with a fake keyword and no
\* real keyword is in fake_files; so no entry of fake_files has a real keyword.
C10_RealFirst ==
    \A f \in found :
        /\ Occurs(RealKeywords, PathStr(data_path, f))
             => (InSeq(f, real_files) /\ ~InSeq(f, fake_files))
        /\ (Occurs(FakeKeywords, PathStr(data_path, f))
              /\ ~Occurs(RealKeywords, PathStr(data_path, f)))
             => (InSeq(f, fake_files) /\ ~InSeq(f, real_files))
        /\ InSeq(f, fake_files) => ~Occurs(RealKeywords, PathStr(data_path, f))

C10_Witness ==
    /\ data_path = <<"f", "a", "k", "e">>
    /\ E_genuine \in found
    /\ E_fake \in found
    /\ InSeq(E_genuine, real_files)
    /\ InSeq(E_fake, fake_files)
====
